---- MODULE Spec2Model ----
(***************************************************************************)
(* clang_log: a `log::Log` implementation that prints records in the style *)
(* of clang diagnostics.  The model covers src/src/lib.rs: the two         *)
(* installers `init` / `init_error`, and `Logger::enabled` / `Logger::log`.*)
(* The pieces of the `log` facade that lib.rs calls (set_max_level,        *)
(* set_boxed_logger, the log macros, logger()) are modelled at their call   *)
(* sites, as the atomics they are: MAX_LEVEL, LOG_STATE and LOGGER.        *)
(*                                                                         *)
(* Text is a sequence of chunks (strings); "\n" is the newline chunk.      *)
(***************************************************************************)
EXTENDS Integers, Sequences, FiniteSets, TLC

VARIABLES
    LOG_STATE,  \* log's install state: UNINITIALIZED / INITIALIZING / INITIALIZED
    LOGGER,     \* log's global logger slot (the boxed Logger once installed)
    MAX_LEVEL,  \* log's process-wide level filter (log::max_level())
    colorize,   \* whether `colored` emits escape codes (terminal / NO_COLOR)
    pc,         \* per thread: where it stands inside init / init_error / a log macro
    args,       \* per thread: the arguments of the init / init_error call in progress
    rec,        \* per thread: the Record handed to the logger
    out,        \* what the last step returned or wrote (an observation of that step)
    firstCall,  \* history: the first init / init_error call, while it was not raced
    winner,     \* history: the call whose set_boxed_logger took the slot
    casWins     \* history: how many set_boxed_logger calls took the slot (capped)

vars == <<LOG_STATE, LOGGER, MAX_LEVEL, colorize, pc, args, rec, out, firstCall, winner, casWins>>

-----------------------------------------------------------------------------
(* Bounds *)

\* Longest message, in chunks, that the formatting specification feeds to log.
MaxLen == 3

Threads == {"t1", "t2"}

-----------------------------------------------------------------------------
(* Levels: log::Level, ordered by discriminant (Error = 1 ... Trace = 5);   *)
(* log::LevelFilter adds Off = 0.                                          *)

Levels == {"Error", "Warn", "Info", "Debug", "Trace"}

AsUsize(l) ==
    CASE l = "Off"   -> 0
      [] l = "Error" -> 1
      [] l = "Warn"  -> 2
      [] l = "Info"  -> 3
      [] l = "Debug" -> 4
      [] l = "Trace" -> 5

\* Level::to_level_filter keeps the discriminant.
ToLevelFilter(l) == l

-----------------------------------------------------------------------------
(* Text *)

NL == "\n"

Reset == "ESC[0m"

EscCodes == {"ESC[1;31m", "ESC[1;95m", "ESC[1;90m", "ESC[1;33m", "ESC[1;37m", Reset}

\* The chunks a message is built from: a letter, a space, the text of the
\* continuation marker itself, and a newline.
Chars == {"a", " ", "    | ", NL}

Messages == UNION {[1..n -> Chars] : n \in 0..MaxLen}

ProgNames == {<<"clang">>, <<"prog">>}

\* The program name each thread of the concurrent specification installs with.
ProgNameOf(t) == IF t = "t1" THEN <<"clang">> ELSE <<"prog">>

\* The messages the concurrent specification emits.
EmitMessages == {<<"a", NL, "a">>}

\* The text of the double-installation report.
TwiceMessage == <<"Logger initialized twice">>

\* colored: a ColoredString displays as code, text, reset when colouring is on.
Styled(text, code) ==
    IF colorize THEN <<code>> \o text \o <<Reset>> ELSE text

\* str::replace(char, &str): every occurrence of the character.
RECURSIVE Replace(_, _, _)
Replace(s, ch, to) ==
    IF s = <<>> THEN <<>>
    ELSE IF Head(s) = ch THEN to \o Replace(Tail(s), ch, to)
    ELSE <<Head(s)>> \o Replace(Tail(s), ch, to)

ReplaceFirst(s, ch, to) ==
    IF \E i \in 1..Len(s) : s[i] = ch
    THEN LET i == CHOOSE k \in 1..Len(s) : s[k] = ch /\ \A j \in 1..(k-1) : s[j] # ch
         IN  SubSeq(s, 1, i-1) \o to \o SubSeq(s, i+1, Len(s))
    ELSE s

ReindentFirstOnly(message, sep) == ReplaceFirst(message, NL, sep)

\* The re-indentation of Logger::log: every newline of the message becomes
\* newline_sep.
Reindent(message, sep) == Replace(message, NL, sep)

\* newline_sep, as init and init_error build it.
NewlineSep == <<NL>> \o Styled(<<"    | ">>, "ESC[1;37m") \o <<" ">>

LevelLabelNote(level) ==
    CASE level = "Error" -> "error:"
      [] level = "Warn"  -> "warning:"
      [] level = "Info"  -> "note:"
      [] level = "Debug" -> "debug:"
      [] level = "Trace" -> "trace:"

LevelLabel(level) ==
    CASE level = "Error" -> "error:"
      [] level = "Warn"  -> "warning:"
      [] level = "Info"  -> "info:"
      [] level = "Debug" -> "debug:"
      [] level = "Trace" -> "trace:"

LevelColor(level) ==
    CASE level = "Error" -> "ESC[1;31m"
      [] level = "Warn"  -> "ESC[1;95m"
      [] level = "Info"  -> "ESC[1;90m"
      [] level = "Debug" -> "ESC[1;33m"
      [] level = "Trace" -> "ESC[1;37m"

-----------------------------------------------------------------------------
(* Logger *)

NopLogger ==
    [kind |-> "Nop", min_level |-> "Off", min_error_level |-> "Off",
     prog_name |-> <<>>, newline_sep |-> <<>>]

NoArgs == [via |-> "none", min_level |-> "Off", min_error_level |-> "Off", prog_name |-> <<>>]

NoRec == [level |-> "Off", message |-> <<>>]

NoOut ==
    [op |-> "none", level |-> "Off", message |-> <<>>, dispatched |-> FALSE,
     accepted |-> FALSE, stream |-> "none", text |-> <<>>]

NoCall == [tag |-> "none", thread |-> "-", args |-> NoArgs]

\* The struct literal of init / init_error.
NewLogger(a) ==
    [kind |-> "Logger", min_level |-> a.min_level, min_error_level |-> a.min_error_level,
     prog_name |-> a.prog_name, newline_sep |-> NewlineSep]

enabledStrict(logger, level) == AsUsize(level) < AsUsize(logger.min_level)

enabledReversed(logger, level) == AsUsize(level) >= AsUsize(logger.min_level)

\* Logger::enabled
enabled(logger, level) == AsUsize(level) <= AsUsize(logger.min_level)

\* The format! of Logger::log.
Format(logger, level, message) ==
    logger.prog_name \o <<":", " ">> \o Styled(<<LevelLabel(level)>>, LevelColor(level))
        \o <<" ">> \o Reindent(message, logger.newline_sep)

\* The stream choice of Logger::log.
ToStderr(logger, level) == AsUsize(level) >= AsUsize(logger.min_error_level)

\* Logger::log: what it writes (eprintln! / println! add the final newline).
log(logger, r) ==
    IF ~enabled(logger, r.level)
    THEN [accepted |-> FALSE, stream |-> "none", text |-> <<>>]
    ELSE [accepted |-> TRUE,
          stream  |-> IF ToStderr(logger, r.level) THEN "stderr" ELSE "stdout",
          text    |-> Format(logger, r.level, r.message) \o <<NL>>]

\* log::logger(): the installed logger once LOG_STATE is INITIALIZED, else the no-op.
CurrentLogger == IF LOG_STATE = "INITIALIZED" THEN LOGGER ELSE NopLogger

\* <NopLogger as Log>::log does nothing; otherwise Logger::log.
Dispatch(logger, r) ==
    IF logger.kind = "Nop"
    THEN [accepted |-> FALSE, stream |-> "none", text |-> <<>>]
    ELSE log(logger, r)

\* The filter test of the log macros: lvl <= log::max_level().
MacroPasses(level) == AsUsize(level) <= AsUsize(MAX_LEVEL)

-----------------------------------------------------------------------------
(* Installation: init and init_error *)

InitPcs == {"set_boxed_logger", "make_logger", "store_state", "spin", "report", "report_log"}

InInit(t) == pc[t] \in InitPcs

\* History: a call starts.  The first call is tracked until another call
\* starts while it is still running.
CallStarts(t, a) ==
    IF firstCall.tag = "none" THEN [tag |-> "running", thread |-> t, args |-> a]
    ELSE IF firstCall.tag = "running" THEN [tag |-> "raced", thread |-> "-", args |-> NoArgs]
    ELSE firstCall

\* History: a call returns.
CallReturns(t) ==
    IF firstCall.tag = "running" /\ firstCall.thread = t
    THEN [firstCall EXCEPT !.tag = "done", !.thread = "-"]
    ELSE firstCall

\* init(min_level, prog_name): set_max_level, then the struct literal, whose
\* min_error_level is Level::Error; set_boxed_logger follows.
init(t, min_level, prog_name) ==
    /\ pc[t] = "idle"
    /\ MAX_LEVEL' = ToLevelFilter(min_level)
    /\ args' = [args EXCEPT ![t] =
                  [via |-> "init", min_level |-> min_level,
                   min_error_level |-> "Error", prog_name |-> prog_name]]
    /\ pc' = [pc EXCEPT ![t] = "set_boxed_logger"]
    /\ firstCall' = CallStarts(t, args'[t])
    /\ out' = NoOut
    /\ UNCHANGED <<LOG_STATE, LOGGER, colorize, rec, winner, casWins>>

\* init_error(min_level, min_error_level, prog_name): the same, with the
\* caller's min_error_level.
init_error(t, min_level, min_error_level, prog_name) ==
    /\ pc[t] = "idle"
    /\ MAX_LEVEL' = ToLevelFilter(min_level)
    /\ args' = [args EXCEPT ![t] =
                  [via |-> "init_error", min_level |-> min_level,
                   min_error_level |-> min_error_level, prog_name |-> prog_name]]
    /\ pc' = [pc EXCEPT ![t] = "set_boxed_logger"]
    /\ firstCall' = CallStarts(t, args'[t])
    /\ out' = NoOut
    /\ UNCHANGED <<LOG_STATE, LOGGER, colorize, rec, winner, casWins>>

SlotNotInitialized == LOG_STATE # "INITIALIZED"

SlotFreeOrTaken == LOG_STATE # "INITIALIZING"

\* set_boxed_logger takes the slot only from UNINITIALIZED (a compare-exchange).
SlotFree == LOG_STATE = "UNINITIALIZED"

\* set_boxed_logger: the compare-exchange on the install state.
SetBoxedLogger(t) ==
    /\ pc[t] = "set_boxed_logger"
    /\ IF SlotFree
       THEN /\ LOG_STATE' = "INITIALIZING"
            /\ pc' = [pc EXCEPT ![t] = "make_logger"]
            /\ winner' = IF casWins = 0
                         THEN [tag |-> "won", thread |-> "-", args |-> args[t]]
                         ELSE winner
            /\ casWins' = IF casWins < 2 THEN casWins + 1 ELSE casWins
            /\ UNCHANGED args
       ELSE /\ pc' = [pc EXCEPT ![t] =
                        IF LOG_STATE = "INITIALIZING" THEN "spin" ELSE "report"]
            /\ args' = [args EXCEPT ![t] = NoArgs]
            /\ UNCHANGED <<LOG_STATE, winner, casWins>>
    /\ out' = NoOut
    /\ UNCHANGED <<LOGGER, MAX_LEVEL, colorize, rec, firstCall>>

\* set_boxed_logger, the winner: the logger is stored in the slot ...
MakeLogger(t) ==
    /\ pc[t] = "make_logger"
    /\ LOGGER' = NewLogger(args[t])
    /\ args' = [args EXCEPT ![t] = NoArgs]
    /\ pc' = [pc EXCEPT ![t] = "store_state"]
    /\ out' = NoOut
    /\ UNCHANGED <<LOG_STATE, MAX_LEVEL, colorize, rec, firstCall, winner, casWins>>

\* ... and the state becomes INITIALIZED; set_boxed_logger returns Ok and the
\* installer returns.
StoreInitialized(t) ==
    /\ pc[t] = "store_state"
    /\ LOG_STATE' = "INITIALIZED"
    /\ pc' = [pc EXCEPT ![t] = "idle"]
    /\ firstCall' = CallReturns(t)
    /\ out' = NoOut
    /\ UNCHANGED <<LOGGER, MAX_LEVEL, colorize, args, rec, winner, casWins>>

\* set_boxed_logger, a loser that met INITIALIZING: it spins until the winner
\* is done, then returns Err.
Spin(t) ==
    /\ pc[t] = "spin"
    /\ LOG_STATE # "INITIALIZING"
    /\ pc' = [pc EXCEPT ![t] = "report"]
    /\ out' = NoOut
    /\ UNCHANGED <<LOG_STATE, LOGGER, MAX_LEVEL, colorize, args, rec, firstCall, winner, casWins>>

\* is_err(): debug!("Logger initialized twice").  The macro tests the
\* process-wide filter and only then hands the record to the logger.
ReportTwice(t) ==
    /\ pc[t] = "report"
    /\ IF MacroPasses("Debug")
       THEN /\ rec' = [rec EXCEPT ![t] = [level |-> "Debug", message |-> TwiceMessage]]
            /\ pc' = [pc EXCEPT ![t] = "report_log"]
            /\ out' = NoOut
            /\ UNCHANGED firstCall
       ELSE /\ pc' = [pc EXCEPT ![t] = "idle"]
            /\ out' = [NoOut EXCEPT !.op = "report", !.level = "Debug",
                                    !.message = TwiceMessage]
            /\ firstCall' = CallReturns(t)
            /\ UNCHANGED rec
    /\ UNCHANGED <<LOG_STATE, LOGGER, MAX_LEVEL, colorize, args, winner, casWins>>

-----------------------------------------------------------------------------
(* Emission *)

\* A log macro of the application (error!, warn!, info!, debug!, trace!):
\* the filter test, then the record goes to the logger.
Emit(t, level, message) ==
    /\ pc[t] = "idle"
    /\ IF MacroPasses(level)
       THEN /\ rec' = [rec EXCEPT ![t] = [level |-> level, message |-> message]]
            /\ pc' = [pc EXCEPT ![t] = "emit_log"]
            /\ out' = NoOut
       ELSE /\ out' = [NoOut EXCEPT !.op = "emit", !.level = level, !.message = message]
            /\ UNCHANGED <<rec, pc>>
    /\ UNCHANGED <<LOG_STATE, LOGGER, MAX_LEVEL, colorize, args, firstCall, winner, casWins>>

\* log::logger().log(&record): Logger::log on the installed logger.
LogRecord(t) ==
    /\ pc[t] \in {"report_log", "emit_log"}
    /\ LET r == Dispatch(CurrentLogger, rec[t])
       IN  out' = [op |-> IF pc[t] = "report_log" THEN "report" ELSE "emit",
                   level |-> rec[t].level, message |-> rec[t].message,
                   dispatched |-> TRUE, accepted |-> r.accepted,
                   stream |-> r.stream, text |-> r.text]
    /\ firstCall' = IF pc[t] = "report_log" THEN CallReturns(t) ELSE firstCall
    /\ rec' = [rec EXCEPT ![t] = NoRec]
    /\ pc' = [pc EXCEPT ![t] = "idle"]
    /\ UNCHANGED <<LOG_STATE, LOGGER, MAX_LEVEL, colorize, args, winner, casWins>>

\* log::logger().enabled(&metadata): Logger::enabled on the installed logger.
CallEnabled(t, level) ==
    /\ pc[t] = "idle"
    /\ out' = [NoOut EXCEPT !.op = "enabled", !.level = level,
                            !.accepted = IF CurrentLogger.kind = "Nop" THEN FALSE
                                        ELSE enabled(CurrentLogger, level)]
    /\ UNCHANGED <<LOG_STATE, LOGGER, MAX_LEVEL, colorize, pc, args, rec, firstCall, winner, casWins>>

-----------------------------------------------------------------------------
(* The process: threads that install and log, in any interleaving *)

Init ==
    /\ LOG_STATE = "UNINITIALIZED"
    /\ LOGGER = NopLogger
    /\ MAX_LEVEL = "Off"
    /\ colorize = TRUE
    /\ pc = [t \in Threads |-> "idle"]
    /\ args = [t \in Threads |-> NoArgs]
    /\ rec = [t \in Threads |-> NoRec]
    /\ out = NoOut
    /\ firstCall = NoCall
    /\ winner = NoCall
    /\ casWins = 0

Next ==
    \/ \E t \in Threads, l \in Levels : init(t, l, ProgNameOf(t))
    \/ \E t \in Threads, l \in Levels, e \in Levels : init_error(t, l, e, ProgNameOf(t))
    \/ \E t \in Threads : SetBoxedLogger(t)
    \/ \E t \in Threads : MakeLogger(t)
    \/ \E t \in Threads : StoreInitialized(t)
    \/ \E t \in Threads : Spin(t)
    \/ \E t \in Threads : ReportTwice(t)
    \/ \E t \in Threads, l \in Levels, m \in EmitMessages : Emit(t, l, m)
    \/ \E t \in Threads : LogRecord(t)

Spec == Init /\ [][Next]_vars

-----------------------------------------------------------------------------
(* One emission on an installed logger.  LogInit is the process after one  *)
(* successful init or init_error call, for every configuration a caller    *)
(* can pass; each behaviour then makes one macro call or one enabled query *)
(* with a message of up to MaxLen chunks.                                  *)

InstallArgs ==
    {[via |-> "init", min_level |-> l, min_error_level |-> "Error", prog_name |-> n] :
        l \in Levels, n \in ProgNames}
    \cup
    {[via |-> "init_error", min_level |-> l, min_error_level |-> e, prog_name |-> n] :
        l \in Levels, e \in Levels, n \in ProgNames}

LogInit ==
    /\ colorize \in BOOLEAN
    /\ \E a \in InstallArgs :
          /\ LOGGER = NewLogger(a)
          /\ MAX_LEVEL = ToLevelFilter(a.min_level)
          /\ firstCall = [tag |-> "done", thread |-> "-", args |-> a]
          /\ winner = [tag |-> "won", thread |-> "-", args |-> a]
    /\ LOG_STATE = "INITIALIZED"
    /\ casWins = 1
    /\ pc = [t \in Threads |-> "idle"]
    /\ args = [t \in Threads |-> NoArgs]
    /\ rec = [t \in Threads |-> NoRec]
    /\ out = NoOut

LogNext ==
    \/ \E l \in Levels, m \in Messages : out = NoOut /\ Emit("t1", l, m)
    \/ LogRecord("t1")
    \/ \E l \in Levels : out = NoOut /\ CallEnabled("t1", l)

LogSpec == LogInit /\ [][LogNext]_vars

-----------------------------------------------------------------------------
(* Vocabulary of the properties: the severity order of the specification   *)
(* (Trace < Debug < Info < Warn < Error), stated on its own.               *)

SeverityRank(l) ==
    CASE l = "Trace" -> 1
      [] l = "Debug" -> 2
      [] l = "Info"  -> 3
      [] l = "Warn"  -> 4
      [] l = "Error" -> 5
      [] OTHER       -> 6

AtLeastAsSevere(a, b) == SeverityRank(a) >= SeverityRank(b)

Written == out.stream # "none"

CountNL(s) == Cardinality({i \in 1..Len(s) : s[i] = NL})

Plain(s) == SelectSeq(s, LAMBDA c : c \notin EscCodes)

\* Every occurrence of the sequence pat in s, left to right, replaced by to.
RECURSIVE ReplaceSeq(_, _, _)
ReplaceSeq(s, pat, to) ==
    IF Len(s) < Len(pat) THEN s
    ELSE IF SubSeq(s, 1, Len(pat)) = pat
         THEN to \o ReplaceSeq(SubSeq(s, Len(pat) + 1, Len(s)), pat, to)
         ELSE <<Head(s)>> \o ReplaceSeq(Tail(s), pat, to)

SpecLabel(l) ==
    CASE l = "Error" -> "error:"
      [] l = "Warn"  -> "warning:"
      [] l = "Info"  -> "info:"
      [] l = "Debug" -> "debug:"
      [] l = "Trace" -> "trace:"

\* The written text without the final newline of println! / eprintln!.
Formatted == SubSeq(out.text, 1, Len(out.text) - 1)

\* The length of "<prog_name>: <label> " in the written text.
PrefixLen == Len(LOGGER.prog_name) + 2 + (IF colorize THEN 3 ELSE 1) + 1

\* The message part of the written text.
Body == SubSeq(Formatted, PrefixLen + 1, Len(Formatted))

\* The continuation marker: the separator after its newline.
Marker == Tail(LOGGER.newline_sep)

-----------------------------------------------------------------------------
(* C1: a written record goes to the error stream exactly when its level is *)
(* at least as severe as the sink's min_error_level, and to the standard   *)
(* stream otherwise.                                                       *)
C1_RoutingBySeverity ==
    Written => (out.stream = "stderr" <=> AtLeastAsSevere(out.level, LOGGER.min_error_level))

(* C2: a sink installed through init has min_error_level = Error, so only  *)
(* Error records reach the error stream; Warn, Info, Debug and Trace       *)
(* records go to the standard stream.                                      *)
C2_InitOnlyErrorToStderr ==
    (Written /\ winner.args.via = "init") =>
        /\ LOGGER.min_error_level = "Error"
        /\ (out.stream = "stderr" <=> out.level = "Error")

(* C3: Logger::enabled returns true exactly when the level's severity rank *)
(* is at least the rank of the sink's min_level.                           *)
C3_EnabledIffAtLeastMinLevel ==
    out.op = "enabled" => (out.accepted <=> AtLeastAsSevere(out.level, LOGGER.min_level))

C3_Witness ==
    /\ out.op = "enabled"
    /\ out.level = "Info"
    /\ LOGGER.min_level = "Warn"
    /\ ~out.accepted

C5_EmittedIffEnabled ==
    (out.op = "emit" /\ firstCall.tag = "done" /\ \A t \in Threads : ~InInit(t)) =>
        (Written <=> AtLeastAsSevere(out.level, LOGGER.min_level))

(* C6: under every interleaving of concurrent init / init_error calls at   *)
(* most one call takes the slot, every other call finds it taken, and the  *)
(* installed sink is the winner's.                                         *)
C6_ExactlyOneWinner ==
    /\ casWins <= 1
    /\ Cardinality({t \in Threads : pc[t] \in {"make_logger", "store_state"}}) <= 1
    /\ \A t \in Threads :
          pc[t] \in {"spin", "report", "report_log"} =>
              (casWins = 1 /\ LOG_STATE # "UNINITIALIZED")
    /\ \A t \in Threads : pc[t] \in {"report", "report_log"} => LOG_STATE = "INITIALIZED"
    /\ LOG_STATE = "INITIALIZED" =>
          /\ casWins = 1
          /\ winner.tag = "won"
          /\ LOGGER.kind = "Logger"
          /\ LOGGER.prog_name = winner.args.prog_name
          /\ LOGGER.min_level = winner.args.min_level
          /\ LOGGER.min_error_level = winner.args.min_error_level

\* Two calls race: one holds the slot, the other spins on it.
C6_Witness ==
    /\ pc["t1"] = "spin"
    /\ pc["t2"] = "store_state"
    /\ firstCall.tag = "raced"

(* C7, as stated: every init / init_error call that finds a sink installed *)
(* has its Debug report "Logger initialized twice" written by the first    *)
(* sink.                                                                   *)
C7_ReportAlwaysWritten ==
    out.op = "report" => Written

(* C7, amended: such a call raises the Debug report "Logger initialized    *)
(* twice"; the report is dropped when the process-wide filter does not     *)
(* pass Debug, and otherwise reaches the first sink, which writes it       *)
(* exactly when its min_level admits Debug; the sink stays installed.      *)
C7_ReportWrittenUnlessFiltered ==
    out.op = "report" =>
        /\ LOG_STATE = "INITIALIZED"
        /\ out.level = "Debug"
        /\ out.message = TwiceMessage
        /\ ~out.dispatched => (~Written /\ ~AtLeastAsSevere("Debug", MAX_LEVEL))
        /\ out.dispatched => (Written <=> AtLeastAsSevere("Debug", LOGGER.min_level))
        /\ Written => Plain(out.text) =
              LOGGER.prog_name \o <<":", " ", "debug:", " ">> \o TwiceMessage \o <<NL>>

C7_Witness ==
    /\ out.op = "report"
    /\ Written
    /\ LOGGER.min_level = "Debug"

(* C8: formatting replaces every newline of the message by the sink's      *)
(* continuation separator and nothing else: the output has as many         *)
(* physical lines as the message has newline-separated segments, every     *)
(* line after the first begins with the continuation marker, and putting   *)
(* a newline back for each separator gives the message again.              *)
C8_ReindentRoundTrip ==
    (out.op = "emit" /\ Written) =>
        /\ CountNL(out.text) = CountNL(out.message) + 1
        /\ Len(Formatted) = PrefixLen + Len(out.message)
                               + CountNL(out.message) * (Len(LOGGER.newline_sep) - 1)
        /\ \A i \in 1..Len(Formatted) :
              Formatted[i] = NL => SubSeq(Formatted, i + 1, i + Len(Marker)) = Marker
        /\ Plain(LOGGER.newline_sep) = <<NL, "    | ", " ">>
        /\ ReplaceSeq(Body, LOGGER.newline_sep, <<NL>>) = out.message

\* A message that is itself the text of the separator, formatted without colour.
C8_Witness ==
    /\ out.op = "emit"
    /\ Written
    /\ out.message = <<NL, "    | ", " ">>
    /\ ~colorize

(* C9: for a message without a newline the formatted record, styling codes *)
(* left out, is the program name, a colon, one space, the level's label    *)
(* (error:, warning:, info:, debug:, trace:), one space, and the message   *)
(* unchanged.                                                              *)
C9_SingleLineRecord ==
    (out.op = "emit" /\ Written /\ CountNL(out.message) = 0) =>
        Plain(Formatted) =
            LOGGER.prog_name \o <<":", " ", SpecLabel(out.level), " ">> \o out.message

C9_Witness ==
    /\ out.op = "emit"
    /\ Written
    /\ out.level = "Info"
    /\ out.message = <<"a", " ", "a">>
    /\ colorize

(* C10: whenever a sink is installed and no init / init_error call is in   *)
(* progress, the process-wide filter equals the installed sink's min_level.*)
(* Stated for the plainest case: the first call ran alone.                 *)
C10_FilterIsSinkMinLevel ==
    (LOG_STATE = "INITIALIZED" /\ firstCall.tag = "done" /\ \A t \in Threads : ~InInit(t)) =>
        MAX_LEVEL = LOGGER.min_level

====
